---- MODULE Spec2Model ----
(***************************************************************************)
(* Authenticated HTTP session layer of the sales back-office client:       *)
(* AuthContext (session manager), http (the two axios clients and their    *)
(* interceptors), storage (durable session record), cache (list cache).    *)
(*                                                                         *)
(* Scheduling is the JavaScript event loop: the code between two awaits    *)
(* runs to completion, so every action below is one such stretch: from the *)
(* event that resumes a callback to the next await of every callback it    *)
(* resumes.  AsyncStorage operations take effect in the order they are     *)
(* issued, so the effect of an operation on the durable record is applied  *)
(* when it is issued and its promise settles in a later action.            *)
(*                                                                         *)
(* Values of string fields: Absent is undefined/null, EmptyStr is '',      *)
(* n >= 1 is the n-th non-empty value the server has issued.               *)
(***************************************************************************)
EXTENDS Integers, Sequences, FiniteSets, TLC

\* ------------------------------------------------------------------ bounds
NumReq == 2          \* requests (callers of the authenticated client)
MaxGen == 3          \* credential sets the server issues (logins + refreshes)
NumCalls == 2        \* cachedList calls that may run at once

\* --------------------------------------------------------------- constants
MAX_NETWORK_RETRIES == 2
Absent == -1
EmptyStr == 0

RETRYABLE_METHODS == {"get", "head", "options"}
Methods == {"get", "head", "options", "post", "put", "delete"}

\* HTTP outcomes of one send: a status, or NoResponse (error.response undefined)
NoResponse == 0
Statuses == {200, 401, 404, 503, NoResponse}

FalsyOnlyNullish(v) == v = -1
Falsy(v) == v <= 0              \* !v for a string | undefined
Nullish(v) == v = Absent        \* what ?? tests

None == <<>>
Some(x) == <<x>>
IsSome(o) == o # <<>>
Val(o) == o[1]

\* ---------------------------------------------------------------- sessions
SessionFields ==
    {"accessToken", "refreshToken", "tenantId", "name", "email", "role", "tokenType"}
OptionalFields == SessionFields \ {"accessToken"}

\* The server's n-th credential set, every field carried.
FullAuth(n) == [f \in SessionFields |-> n]
\* The same with the fields of `omitted` left out of the body.
AuthOmitting(n, omitted) ==
    [f \in SessionFields |-> IF f \in omitted THEN Absent ELSE n]
\* The same with an empty-string refreshToken.
AuthEmptyRefresh(n) == [FullAuth(n) EXCEPT !["refreshToken"] = EmptyStr]

\* Bodies the auth endpoints answer with: the n-th credential set in full,
\* without refreshToken, with accessToken alone, with an empty refreshToken.
AuthBodies(n) ==
    { FullAuth(n), AuthOmitting(n, {"refreshToken"}),
      AuthOmitting(n, OptionalFields), AuthEmptyRefresh(n) }
\* A body with the n-th tokens for the user and tenant of the first one.
RotatedAuth(n) ==
    [FullAuth(1) EXCEPT !["accessToken"] = n, !["refreshToken"] = n]
\* The two bodies the concurrency specification uses: new tokens for the
\* same user, and an access token alone.
FewBodies(n) == { RotatedAuth(n), AuthOmitting(n, OptionalFields) }
\* A body without an access token, and the bodies the refresh endpoint
\* answers with in the specification with fairness.
AuthNoAccess(n) == [RotatedAuth(n) EXCEPT !["accessToken"] = Absent]
FairBodies(n) == { RotatedAuth(n), AuthNoAccess(n) }

FieldOf(o, f) == IF IsSome(o) THEN Val(o)[f] ELSE Absent

\* refreshAccessToken: the merged session (AuthContext.tsx 58-66)
MergedNoFallback(refreshed, currentSession) == refreshed
Merged(refreshed, currentSession) ==
    [f \in SessionFields |->
        IF f = "accessToken" THEN refreshed[f]
        ELSE IF Nullish(refreshed[f]) THEN currentSession[f] ELSE refreshed[f]]

\* loginWithPassword / registerAndLogin: toSessionState throws without a
\* refresh token
ToSessionStateNeverThrows(auth) == FALSE
ToSessionStateThrows(auth) == Falsy(auth["refreshToken"])
ToSessionState(auth) == [f \in SessionFields |-> auth[f]]

\* ------------------------------------------------------ durable session record
\* The raw string under SESSION_STORAGE_KEY: none, text that is not JSON,
\* the JSON text null, or the JSON text of an object.
EmptyObject == [f \in SessionFields |-> Absent]
NoRecord == [kind |-> "none", val |-> EmptyObject]
Malformed == [kind |-> "malformed", val |-> EmptyObject]
JsonNull == [kind |-> "null", val |-> EmptyObject]
\* JSON.stringify(session): undefined fields are dropped from the text
Stringify(session) == [kind |-> "object", val |-> session]

JsonParseThrows(raw) == raw.kind = "malformed"
\* JSON.parse(raw) as SessionState: no validation of the shape
JsonParse(raw) == IF raw.kind = "object" THEN Some(raw.val) ELSE None

\* ------------------------------------------------------------------- state
VARIABLES
    sessionRef,     \* AuthContext: sessionRef.current (None or Some(session))
    stored,         \* AsyncStorage: the raw value under SESSION_STORAGE_KEY
    bootPc,         \* AuthContext: the boot effect (loading, ready)
    refreshOp,      \* AuthContext: refreshPromiseRef.current and its async body
    authOp,         \* AuthContext: the running loginWithPassword / registerAndLogin
    req,            \* http: the requests and the fields of their config
    issued,         \* server: credential sets issued so far
    refreshCalls,   \* server: calls received by /api/v1/auth/refresh
    cache,          \* AsyncStorage: the raw value under each list-cache key
    call,           \* cache.ts: the running cachedList calls
    lastOk          \* per key, the list of the last fetch that was cached

sessVars == <<sessionRef, stored, bootPc, refreshOp, authOp, req, issued, refreshCalls>>
cacheVars == <<cache, call, lastOk>>
vars == <<sessVars, cacheVars>>

Reqs == 1..NumReq

IdleRefresh ==
    [pc |-> "idle", cur |-> EmptyObject, body |-> EmptyObject, tok |-> Absent,
     err |-> "", ok |-> TRUE]
IdleAuth == [pc |-> "idle", body |-> EmptyObject, ok |-> TRUE]
IdleReq ==
    [pc |-> "idle", client |-> "api", method |-> "get", retry |-> FALSE, nrc |-> 0,
     hdr |-> Absent, tenant |-> Absent, sends |-> 0, resends |-> 0, tok |-> Absent,
     errStatus |-> 200, result |-> "none"]

\* A settled request: what its caller received (result), on which client and
\* method, after how many sends, how many of them resends of the 401 branch.
Done(q, result) ==
    [IdleReq EXCEPT !.pc = "done", !.client = q.client, !.method = q.method,
                    !.sends = q.sends, !.resends = q.resends, !.result = result]

\* Records the durable store may hold when the app starts.
InitialRecords ==
    {NoRecord, Malformed, JsonNull, Stringify(EmptyObject), Stringify(FullAuth(1)),
     Stringify(AuthEmptyRefresh(1))}

InitSession(records) ==
    /\ sessionRef = None
    /\ stored \in records
    /\ bootPc = "loading"
    /\ refreshOp = IdleRefresh
    /\ authOp = IdleAuth
    /\ req = [r \in Reqs |-> IdleReq]
    /\ issued = 1
    /\ refreshCalls = 0


\* ----------------------------------------------------------------- storage
\* AsyncStorage.setItem may reject (ok = FALSE) and then leaves the record as
\* it was; getItem and removeItem resolve.
\* AuthContext applySession, before its await: the session in memory
ApplySessionAfterWrite(nextSession) == sessionRef
ApplySession(nextSession) == Some(nextSession)

\* storage.ts persistSession / clearSession, the effect on the record
PersistSession(session, ok) == IF ok THEN Stringify(session) ELSE stored
ClearSessionLeavesRecord == stored
ClearSession == NoRecord

\* AuthContext resetSession, before its await: <<the session in memory, the
\* record once clearSession has taken effect>>
ResetSessionKeepsMemory == <<sessionRef, ClearSession>>
ResetSession == <<None, ClearSession>>

\* the binding onUnauthorized of configureHttpAuth: void resetSession()
OnUnauthorizedNotBound == <<sessionRef, stored>>
OnUnauthorized == ResetSession

\* storage.ts loadSession: <<returned value, record left behind>>
LoadSession(raw) ==
    IF raw.kind = "none" THEN <<None, raw>>
    ELSE IF JsonParseThrows(raw) THEN <<None, NoRecord>>
    ELSE <<JsonParse(raw), raw>>

\* ---------------------------------------------------------- session manager
\* AuthContext: isBooting
IsBooting == bootPc # "ready"

\* AuthContext boot effect: loadSession, then sessionRef and isBooting
BootLoad ==
    /\ bootPc = "loading"
    /\ sessionRef' = LoadSession(stored)[1]
    /\ stored' = LoadSession(stored)[2]
    /\ bootPc' = "ready"
    /\ UNCHANGED <<refreshOp, authOp, req, issued, refreshCalls>>

\* refreshPromiseRef.current is set
RefreshNeverInFlight == FALSE
RefreshInFlight == refreshOp.pc # "idle"

\* logout: resetSession (the UI offers it while a session is shown)
Logout ==
    /\ ~IsBooting
    /\ IsSome(sessionRef)
    /\ sessionRef' = ResetSession[1]
    /\ stored' = ResetSession[2]
    /\ UNCHANGED <<bootPc, refreshOp, authOp, req, issued, refreshCalls>>

\* loginWithPassword is called (the login screen is shown while no session is)
LoginWithPassword ==
    /\ ~IsBooting
    /\ sessionRef = None
    /\ authOp.pc = "idle"
    /\ authOp' = [IdleAuth EXCEPT !.pc = "login"]
    /\ UNCHANGED <<sessionRef, stored, bootPc, refreshOp, req, issued, refreshCalls>>

\* registerAndLogin is called
RegisterAndLogin ==
    /\ ~IsBooting
    /\ sessionRef = None
    /\ authOp.pc = "idle"
    /\ authOp' = [IdleAuth EXCEPT !.pc = "register"]
    /\ UNCHANGED <<sessionRef, stored, bootPc, refreshOp, req, issued, refreshCalls>>

\* registerAdminAndTenant settles: on success login is called
RegisterSettles ==
    /\ authOp.pc = "register"
    /\ \E okReg \in BOOLEAN :
        authOp' = IF okReg THEN [authOp EXCEPT !.pc = "login"] ELSE IdleAuth
    /\ UNCHANGED <<sessionRef, stored, bootPc, refreshOp, req, issued, refreshCalls>>

\* login rejects: loginWithPassword / registerAndLogin reject
LoginFails ==
    /\ authOp.pc = "login"
    /\ authOp' = IdleAuth
    /\ UNCHANGED <<sessionRef, stored, bootPc, refreshOp, req, issued, refreshCalls>>

\* login resolves with `body`: toSessionState, then applySession up to its
\* await of persistSession (which will resolve, ok, or reject)
LoginResolves(body, ok) ==
    /\ authOp.pc = "login"
    /\ issued < MaxGen
    /\ issued' = issued + 1
    /\ IF ToSessionStateThrows(body)
       THEN /\ ok
            /\ authOp' = IdleAuth
            /\ UNCHANGED <<sessionRef, stored>>
       ELSE /\ sessionRef' = ApplySession(ToSessionState(body))
            /\ stored' = PersistSession(ToSessionState(body), ok)
            /\ authOp' = [authOp EXCEPT !.pc = "persist", !.body = body, !.ok = ok]
    /\ UNCHANGED <<bootPc, refreshOp, req, refreshCalls>>

\* persistSession settles inside applySession: the login call settles
LoginPersistSettles ==
    /\ authOp.pc = "persist"
    /\ authOp' = IdleAuth
    /\ UNCHANGED <<sessionRef, stored, bootPc, refreshOp, req, issued, refreshCalls>>

\* ------------------------------------------------------------------ transport
BothVars == <<bootPc, authOp, issued>>

\* http.ts shouldRetryNetworkRequest(originalRequest, error)
ShouldRetryAnyMethod(q, status) ==
    /\ q.nrc < MAX_NETWORK_RETRIES
    /\ (status = NoResponse \/ (status >= 500 /\ status < 600))
ShouldRetryUnbounded(q, status) ==
    /\ q.method \in RETRYABLE_METHODS
    /\ q.nrc < MAX_NETWORK_RETRIES + 1
    /\ (status = NoResponse \/ (status >= 500 /\ status < 600))
ShouldRetryNetworkRequest(q, status) ==
    /\ q.method \in RETRYABLE_METHODS
    /\ q.nrc < MAX_NETWORK_RETRIES
    /\ (status = NoResponse \/ (status >= 500 /\ status < 600))

\* api request interceptor: the Authorization header and the X-Tenant-Id
\* header after it ran (hdr is the header the config had before)
AttachTenant(hdr, session) ==
    IF Falsy(FieldOf(session, "tenantId")) THEN hdr
    ELSE FieldOf(session, "tenantId")
AttachAuthFromSessionOnly(hdr, session) == FieldOf(session, "accessToken")
AttachAuthKeepsHeader(hdr, session) ==
    IF hdr # Absent \/ Falsy(FieldOf(session, "accessToken")) THEN hdr
    ELSE FieldOf(session, "accessToken")
AttachAuth(hdr, session) ==
    IF Falsy(FieldOf(session, "accessToken")) THEN hdr
    ELSE FieldOf(session, "accessToken")

ErrOf(status) ==
    CASE status = 401 -> "http401"
      [] status = 404 -> "http404"
      [] status = 503 -> "http503"
      [] OTHER -> "noResponse"

\* a call of api.get/post/put/delete: the request interceptor runs, the
\* request is sent
ApiRequest(r, m) ==
    /\ ~IsBooting
    /\ req[r].pc = "idle"
    /\ req' = [req EXCEPT ![r] = [IdleReq EXCEPT
                 !.pc = "sent", !.client = "api", !.method = m, !.sends = 1,
                 !.hdr = AttachAuth(Absent, sessionRef),
                 !.tenant = AttachTenant(Absent, sessionRef)]]
    /\ UNCHANGED <<sessionRef, stored, refreshOp, refreshCalls, BothVars>>

\* a call of publicApi.get/post: no request interceptor
PublicRequest(r, m) ==
    /\ ~IsBooting
    /\ req[r].pc = "idle"
    /\ req' = [req EXCEPT ![r] = [IdleReq EXCEPT
                 !.pc = "sent", !.client = "public", !.method = m, !.sends = 1]]
    /\ UNCHANGED <<sessionRef, stored, refreshOp, refreshCalls, BothVars>>

\* a 2xx response: (response) => response
ResponseOk(r) ==
    /\ req[r].pc = "sent"
    /\ req' = [req EXCEPT ![r] = Done(@, "ok")]
    /\ UNCHANGED <<sessionRef, stored, refreshOp, refreshCalls, BothVars>>

\* response error handler of either client, network-retry branch: count the
\* retry and wait RETRY_BASE_DELAY_MS * 2 ** retryCount
NetworkRetry(r, status) ==
    /\ req[r].pc = "sent"
    /\ status # 200
    /\ ShouldRetryNetworkRequest(req[r], status)
    /\ req' = [req EXCEPT ![r].pc = "backoff", ![r].nrc = @ + 1,
                           ![r].errStatus = status]
    /\ UNCHANGED <<sessionRef, stored, refreshOp, refreshCalls, BothVars>>

\* the wait is over: publicApi(originalRequest) / api(originalRequest), with
\* the api request interceptor run again
BackoffElapses(r) ==
    /\ req[r].pc = "backoff"
    /\ req' = [req EXCEPT ![r].pc = "sent", ![r].sends = @ + 1,
                 ![r].errStatus = 200,
                 ![r].hdr = IF req[r].client = "api"
                            THEN AttachAuth(@, sessionRef) ELSE @,
                 ![r].tenant = IF req[r].client = "api"
                               THEN AttachTenant(@, sessionRef) ELSE @]
    /\ UNCHANGED <<sessionRef, stored, refreshOp, refreshCalls, BothVars>>

\* publicApi response error handler, Promise.reject(error)
PublicRejects(r, status) ==
    /\ req[r].pc = "sent"
    /\ req[r].client = "public"
    /\ status # 200
    /\ ~ShouldRetryNetworkRequest(req[r], status)
    /\ req' = [req EXCEPT ![r] = Done(@, ErrOf(status))]
    /\ UNCHANGED <<sessionRef, stored, refreshOp, refreshCalls, BothVars>>

\* api response error handler: the request goes to the 401 branch unless
\* originalRequest._retry || status !== 401
AuthRetryOnlyFirstSend(q, status) == ~q.retry /\ status = 401 /\ q.nrc = 0
AuthRetryAlways(q, status) == status = 401
AuthRetryEligible(q, status) == ~q.retry /\ status = 401

\* api response error handler, Promise.reject(error)
ApiRejectsUnauthorized(r, status) ==
    /\ req[r].pc = "sent"
    /\ req[r].client = "api"
    /\ status # 200
    /\ ~ShouldRetryNetworkRequest(req[r], status)
    /\ ~AuthRetryEligible(req[r], status)
    /\ req' = [req EXCEPT ![r] = Done(@, ErrOf(status))]
    /\ sessionRef' = IF status = 401 THEN OnUnauthorized[1] ELSE sessionRef
    /\ stored' = IF status = 401 THEN OnUnauthorized[2] ELSE stored
    /\ UNCHANGED <<refreshOp, refreshCalls, BothVars>>
ApiRejects(r, status) ==
    /\ req[r].pc = "sent"
    /\ req[r].client = "api"
    /\ status # 200
    /\ ~ShouldRetryNetworkRequest(req[r], status)
    /\ ~AuthRetryEligible(req[r], status)
    /\ req' = [req EXCEPT ![r] = Done(@, ErrOf(status))]
    /\ UNCHANGED <<sessionRef, stored, refreshOp, refreshCalls, BothVars>>

\* api response error handler, 401 branch: _retry = true, then
\* refreshAccessToken() up to its first await:
\*   a refresh is in flight: return refreshPromiseRef.current
\*   no refresh token:        resetSession() is awaited
\*   otherwise:               refresh(currentSession.refreshToken) is called
\*                            and refreshPromiseRef.current is set
\* The Authorization header of the failed send is not read again: the
\* handler either overwrites it before the resend or rejects.
Api401(r) ==
    /\ req[r].pc = "sent"
    /\ req[r].client = "api"
    /\ ~ShouldRetryNetworkRequest(req[r], 401)
    /\ AuthRetryEligible(req[r], 401)
    /\ IF RefreshInFlight
       THEN /\ req' = [req EXCEPT ![r].pc = "awaitRefresh", ![r].retry = TRUE,
                                  ![r].errStatus = 401, ![r].hdr = Absent]
            /\ UNCHANGED <<sessionRef, stored, refreshOp, refreshCalls>>
       ELSE IF Falsy(FieldOf(sessionRef, "refreshToken"))
       THEN /\ sessionRef' = ResetSession[1]
            /\ stored' = ResetSession[2]
            /\ req' = [req EXCEPT ![r].pc = "awaitReset", ![r].retry = TRUE,
                                  ![r].errStatus = 401, ![r].hdr = Absent]
            /\ UNCHANGED <<refreshOp, refreshCalls>>
       ELSE /\ refreshOp' = [IdleRefresh EXCEPT !.pc = "net", !.cur = Val(sessionRef)]
            /\ refreshCalls' = refreshCalls + 1
            /\ req' = [req EXCEPT ![r].pc = "awaitRefresh", ![r].retry = TRUE,
                                  ![r].errStatus = 401, ![r].hdr = Absent]
            /\ UNCHANGED <<sessionRef, stored>>
    /\ UNCHANGED BothVars

\* refreshAccessToken returned null from its no-refresh-token branch: the
\* handler calls onUnauthorized (void resetSession()) and rejects with the 401
ResetSettles(r) ==
    /\ req[r].pc = "awaitReset"
    /\ sessionRef' = OnUnauthorized[1]
    /\ stored' = OnUnauthorized[2]
    /\ req' = [req EXCEPT ![r] = Done(@, "http401")]
    /\ UNCHANGED <<refreshOp, refreshCalls, BothVars>>

\* ------------------------------------------------- the shared refresh promise
\* What the 401 branch does with the settled refreshAccessToken() promise:
\* a token: set the header, api(originalRequest) (the request interceptor
\* runs again); null: onUnauthorized, reject with the 401; a rejection:
\* onUnauthorized, reject with the refresh error.
DeliverOriginalError(q, resolved, tok, err) ==
    IF resolved /\ ~Falsy(tok)
    THEN [q EXCEPT !.pc = "sent", !.hdr = AttachAuth(tok, sessionRef),
                   !.tenant = AttachTenant(@, sessionRef),
                   !.sends = @ + 1, !.resends = @ + 1, !.tok = tok,
                   !.errStatus = 200]
    ELSE Done(q, "http401")
DeliverResetsRetryCount(q, resolved, tok, err) ==
    IF resolved /\ ~Falsy(tok)
    THEN [q EXCEPT !.pc = "sent", !.hdr = AttachAuth(tok, sessionRef),
                   !.tenant = AttachTenant(@, sessionRef),
                   !.sends = @ + 1, !.resends = @ + 1, !.tok = tok,
                   !.errStatus = 200, !.nrc = 0]
    ELSE IF resolved
    THEN Done(q, "http401")
    ELSE Done(q, err)
Deliver(q, resolved, tok, err) ==
    IF resolved /\ ~Falsy(tok)
    THEN [q EXCEPT !.pc = "sent", !.hdr = AttachAuth(tok, sessionRef),
                   !.tenant = AttachTenant(@, sessionRef),
                   !.sends = @ + 1, !.resends = @ + 1, !.tok = tok,
                   !.errStatus = 200]
    ELSE IF resolved
    THEN Done(q, "http401")
    ELSE Done(q, err)

Waiters == {r \in Reqs : req[r].pc = "awaitRefresh"}

\* .finally(() => { refreshPromiseRef.current = null })
PendingKept == refreshOp
PendingCleared == IdleRefresh

\* The promise chain settles: finally clears refreshPromiseRef, every awaiting
\* handler continues.  onUnauthorized is void resetSession().
Settle(resolved, tok, err) ==
    /\ refreshOp' = PendingCleared
    /\ req' = [r \in Reqs |->
                 IF r \in Waiters THEN Deliver(req[r], resolved, tok, err) ELSE req[r]]
    /\ IF Waiters # {} /\ ~(resolved /\ ~Falsy(tok))
       THEN /\ sessionRef' = OnUnauthorized[1]
            /\ stored' = OnUnauthorized[2]
       ELSE UNCHANGED <<sessionRef, stored>>

\* refresh() resolves with `body`: merge, applySession up to its await of
\* persistSession (which will resolve, ok, or reject)
RefreshResolves(body, ok) ==
    /\ refreshOp.pc = "net"
    /\ issued < MaxGen
    /\ issued' = issued + 1
    /\ LET merged == Merged(body, refreshOp.cur) IN
        /\ sessionRef' = ApplySession(merged)
        /\ stored' = PersistSession(merged, ok)
        /\ refreshOp' = [refreshOp EXCEPT !.pc = "persist", !.body = body,
                                          !.tok = merged["accessToken"], !.ok = ok]
    /\ UNCHANGED <<bootPc, authOp, req, refreshCalls>>

RefreshErrors == {"E_refresh_rejected", "E_refresh_network"}

\* refresh() rejects with e: .catch runs resetSession up to its await
RefreshRejects(e) ==
    /\ refreshOp.pc = "net"
    /\ sessionRef' = ResetSession[1]
    /\ stored' = ResetSession[2]
    /\ refreshOp' = [refreshOp EXCEPT !.pc = "clear", !.err = e]
    /\ UNCHANGED <<bootPc, authOp, req, issued, refreshCalls>>

\* persistSession settles inside applySession: the async body returns
\* merged.accessToken, or .catch runs resetSession up to its await
RefreshPersistSettlesIgnoringFailure ==
    /\ refreshOp.pc = "persist"
    /\ Settle(TRUE, refreshOp.tok, "")
    /\ UNCHANGED <<refreshCalls, BothVars>>
RefreshPersistSettles ==
    /\ refreshOp.pc = "persist"
    /\ IF refreshOp.ok
       THEN Settle(TRUE, refreshOp.tok, "")
       ELSE /\ sessionRef' = ResetSession[1]
            /\ stored' = ResetSession[2]
            /\ refreshOp' = [refreshOp EXCEPT !.pc = "clear", !.err = "E_persist"]
            /\ UNCHANGED req
    /\ UNCHANGED <<refreshCalls, BothVars>>

\* clearSession settles inside .catch: the error is rethrown
RefreshClearSettles ==
    /\ refreshOp.pc = "clear"
    /\ Settle(FALSE, Absent, refreshOp.err)
    /\ UNCHANGED <<refreshCalls, BothVars>>

\* ----------------------------------------------------------------- list cache
\* toCacheKey is injective and a call touches the entry of its own key only:
\* the model follows the entry of one key.
Keys == {"clients"}
Calls == 1..NumCalls
\* cachedList looks at a list only to tell whether it is truthy, which every
\* array is: the fetched lists are the empty list and a list of one item.
Lists == {<<>>, <<1>>}
FetchErrors == {"E_fetch"}

\* The raw string under toCacheKey(key): none, text that is not JSON, the JSON
\* text of an object without a value, or of an envelope { value, updatedAt }.
\* updatedAt is written and never read, so the envelope is modelled by its value.
NoEntry == [kind |-> "none", value |-> <<>>]
MalformedEntry == [kind |-> "malformed", value |-> <<>>]
NoValueEntry == [kind |-> "novalue", value |-> <<>>]
\* writeCache: JSON.stringify({ value, updatedAt: Date.now() })
Envelope(value) == [kind |-> "envelope", value |-> value]
\* The JSON text of an object whose value is truthy and not a list (a
\* string, say), which the model writes as NotAList.
NotAList == <<0>>
NonListEntry == [kind |-> "nonlist", value |-> NotAList]

\* readCache after getItem returned `raw`: what it returns, None for null or
\* undefined (both falsy in cachedList).  A list, empty or not, is truthy.
ReadCacheEmptyOnMiss(raw) ==
    IF raw.kind = "envelope" THEN Some(raw.value) ELSE Some(<<>>)
ReadCache(raw) ==
    IF raw.kind \in {"envelope", "nonlist"} THEN Some(raw.value) ELSE None
\* readCache: JSON.parse throws, the catch removes the entry
ReadCacheRemoves(raw) == raw.kind = "malformed"

IdleCall ==
    [pc |-> "idle", key |-> "clients", seen |-> None, raw |-> NoEntry, fresh |-> <<>>,
     err |-> "", result |-> None, thrown |-> "", tenant |-> Absent]

\* A settled call: what its caller received, a list (result) or an error
\* (thrown); err is the error the catch block had caught, if it ran.  While a
\* call runs, seen is the value of the last successful fetch of its key at the
\* time the call was made.
Returned(q, result, thrown) ==
    [IdleCall EXCEPT !.pc = "done", !.key = q.key, !.err = q.err,
                     !.result = result, !.thrown = thrown]

InitCache(entries) ==
    /\ cache \in [Keys -> entries]
    /\ call = [c \in Calls |-> IdleCall]
    /\ lastOk = [k \in Keys |-> None]

\* cachedList(key, fetcher) is called: fetcher() is awaited
CachedList(c, k) ==
    /\ call[c].pc \in {"idle", "done"}
    /\ call' = [call EXCEPT ![c] = [IdleCall EXCEPT !.pc = "fetch", !.key = k,
                                                   !.seen = lastOk[k],
                                                   !.tenant = FieldOf(sessionRef, "tenantId")]]
    /\ UNCHANGED <<cache, lastOk>>

\* fetcher() resolves with `fresh`: writeCache up to its await of setItem
\* (which will resolve, ok, or reject)
FetcherResolves(c, fresh, ok) ==
    /\ call[c].pc = "fetch"
    /\ cache' = IF ok THEN [cache EXCEPT ![call[c].key] = Envelope(fresh)]
                ELSE cache
    /\ lastOk' = IF ok THEN [lastOk EXCEPT ![call[c].key] = Some(fresh)] ELSE lastOk
    /\ call' = [call EXCEPT ![c].pc = IF ok THEN "write" ELSE "writeFailed",
                            ![c].fresh = fresh]

\* setItem resolved: return fresh
WriteSettles(c) ==
    /\ call[c].pc = "write"
    /\ call' = [call EXCEPT ![c] = Returned(@, Some(@.fresh), "")]
    /\ UNCHANGED <<cache, lastOk>>

\* fetcher() rejected with e, or setItem rejected: the catch block calls
\* readCache, which awaits getItem
CatchReads(c, e) ==
    /\ \/ call[c].pc = "fetch" /\ e \in FetchErrors
       \/ call[c].pc = "writeFailed" /\ e = "E_write"
    /\ call' = [call EXCEPT ![c].pc = "read", ![c].err = e,
                            ![c].raw = cache[call[c].key]]
    /\ UNCHANGED <<cache, lastOk>>

\* getItem resolved: readCache parses; on a parse error it awaits removeItem;
\* otherwise cachedList returns the cached value or throws the caught error
ReadSettles(c) ==
    /\ call[c].pc = "read"
    /\ IF ReadCacheRemoves(call[c].raw)
       THEN /\ cache' = [cache EXCEPT ![call[c].key] = NoEntry]
            /\ call' = [call EXCEPT ![c].pc = "remove", ![c].raw = NoEntry]
       ELSE /\ call' = [call EXCEPT ![c] =
                         Returned(@, ReadCache(@.raw),
                                  IF IsSome(ReadCache(@.raw)) THEN "" ELSE @.err)]
            /\ UNCHANGED cache
    /\ UNCHANGED lastOk

\* removeItem resolved: readCache returns null, cachedList throws the error
RemoveSettles(c) ==
    /\ call[c].pc = "remove"
    /\ call' = [call EXCEPT ![c] = Returned(@, None, @.err)]
    /\ UNCHANGED <<cache, lastOk>>

\* listClients and the like, called from a screen of the signed-in user: the
\* fetcher sends its GET under the tenant the session has at the call
\* (call[c].tenant)
ListCalled(c, k) ==
    /\ ~IsBooting
    /\ IsSome(sessionRef)
    /\ CachedList(c, k)

\* the server answers the fetcher with the list of the tenant the request
\* was sent under: one item, which names its tenant
ListFetched(c, ok) ==
    /\ call[c].tenant >= 1
    /\ FetcherResolves(c, <<call[c].tenant>>, ok)

\* ----------------------------------------------------------- specifications
\* The session manager's operations, with the auth endpoints answering from
\* `bodies`.
SessionNext(bodies) ==
    \/ BootLoad
    \/ Logout
    \/ LoginWithPassword
    \/ LoginFails
    \/ \E ok \in BOOLEAN : \E body \in bodies : LoginResolves(body, ok)
    \/ LoginPersistSettles
    \/ \E ok \in BOOLEAN : \E body \in bodies : RefreshResolves(body, ok)
    \/ \E e \in RefreshErrors : RefreshRejects(e)
    \/ RefreshPersistSettles
    \/ RefreshClearSettles

\* Concurrent POST requests on the authenticated client.
NextRequests ==
    \/ SessionNext(FewBodies(issued + 1))
    \/ \E r \in Reqs : ApiRequest(r, "post")
    \/ \E r \in Reqs : ResponseOk(r)
    \/ \E r \in Reqs : ApiRejects(r, 401)
    \/ \E r \in Reqs : Api401(r)
    \/ \E r \in Reqs : ResetSettles(r)

Next == NextRequests /\ UNCHANGED cacheVars

Init == InitSession({NoRecord, Stringify(FullAuth(1))}) /\ InitCache({NoEntry})

Spec == Init /\ [][Next]_vars

\* Requests under a stored session that the user may end, the refresh
\* endpoint rotating the tokens, where every await of a started refresh
\* operation returns: the refresh call settles, and so do the storage write
\* and the storage removal it awaits.
RefreshReturns ==
    /\ \/ \E ok \in BOOLEAN : \E body \in FairBodies(issued + 1) : RefreshResolves(body, ok)
       \/ \E e \in RefreshErrors : RefreshRejects(e)
    /\ UNCHANGED cacheVars

StorageReturns ==
    /\ \/ RefreshPersistSettles
       \/ RefreshClearSettles
       \/ \E r \in Reqs : ResetSettles(r)
    /\ UNCHANGED cacheVars

NextFairRequests ==
    \/ BootLoad
    \/ Logout
    \/ \E ok \in BOOLEAN : \E body \in FairBodies(issued + 1) : RefreshResolves(body, ok)
    \/ \E e \in RefreshErrors : RefreshRejects(e)
    \/ RefreshPersistSettles
    \/ RefreshClearSettles
    \/ \E r \in Reqs : ApiRequest(r, "post")
    \/ \E r \in Reqs : ResponseOk(r)
    \/ \E r \in Reqs : ApiRejects(r, 401)
    \/ \E r \in Reqs : Api401(r)
    \/ \E r \in Reqs : ResetSettles(r)

NextFair == NextFairRequests /\ UNCHANGED cacheVars

InitFair == InitSession({Stringify(FullAuth(1))}) /\ InitCache({NoEntry})

SpecFair ==
    /\ InitFair
    /\ [][NextFair]_vars
    /\ WF_vars(RefreshReturns)
    /\ WF_vars(StorageReturns)

\* A user who signs out and in again, each login under another tenant, and
\* the list functions called meanwhile.
NextTenant ==
    \/ /\ \/ BootLoad
          \/ Logout
          \/ LoginWithPassword
          \/ LoginFails
          \/ \E ok \in BOOLEAN : LoginResolves(FullAuth(issued + 1), ok)
          \/ LoginPersistSettles
       /\ UNCHANGED cacheVars
    \/ /\ \/ \E c \in Calls, k \in Keys : ListCalled(c, k)
          \/ \E c \in Calls, ok \in BOOLEAN : ListFetched(c, ok)
          \/ \E c \in Calls : WriteSettles(c)
          \/ \E c \in Calls, e \in FetchErrors \cup {"E_write"} : CatchReads(c, e)
          \/ \E c \in Calls : ReadSettles(c)
       /\ UNCHANGED sessVars

InitTenant == InitSession({Stringify(FullAuth(1))}) /\ InitCache({NoEntry})

SpecTenant == InitTenant /\ [][NextTenant]_vars

\* One request at a time on either client, with every method and every
\* outcome of a send, every body of the auth endpoints, registration, and
\* every initial record.
NextOneRequest ==
    \/ SessionNext(AuthBodies(issued + 1))
    \/ RegisterAndLogin
    \/ RegisterSettles
    \/ \E m \in Methods : ApiRequest(1, m)
    \/ \E m \in Methods : PublicRequest(1, m)
    \/ ResponseOk(1)
    \/ \E status \in Statuses : NetworkRetry(1, status)
    \/ BackoffElapses(1)
    \/ \E status \in Statuses : PublicRejects(1, status)
    \/ \E status \in Statuses : ApiRejects(1, status)
    \/ Api401(1)
    \/ ResetSettles(1)

NextOne == NextOneRequest /\ UNCHANGED cacheVars

InitOne == InitSession(InitialRecords) /\ InitCache({NoEntry})

SpecOne == InitOne /\ [][NextOne]_vars

\* The same, where every await returns: a send gets its response or fails,
\* the wait before a network retry ends, the refresh call settles, and so do
\* the storage calls.
SendReturns ==
    /\ \/ ResponseOk(1)
       \/ \E status \in Statuses : NetworkRetry(1, status)
       \/ \E status \in Statuses : PublicRejects(1, status)
       \/ \E status \in Statuses : ApiRejects(1, status)
       \/ Api401(1)
    /\ UNCHANGED cacheVars

WaitReturns == BackoffElapses(1) /\ UNCHANGED cacheVars

RefreshReturnsOne ==
    /\ \/ \E ok \in BOOLEAN : \E body \in AuthBodies(issued + 1) : RefreshResolves(body, ok)
       \/ \E e \in RefreshErrors : RefreshRejects(e)
    /\ UNCHANGED cacheVars

SpecOneFair ==
    /\ InitOne
    /\ [][NextOne]_vars
    /\ WF_vars(SendReturns)
    /\ WF_vars(WaitReturns)
    /\ WF_vars(RefreshReturnsOne)
    /\ WF_vars(StorageReturns)

\* Concurrent cachedList calls over the list cache.
NextCacheCalls ==
    \/ \E c \in Calls, k \in Keys : CachedList(c, k)
    \/ \E c \in Calls, fresh \in Lists, ok \in BOOLEAN : FetcherResolves(c, fresh, ok)
    \/ \E c \in Calls : WriteSettles(c)
    \/ \E c \in Calls, e \in FetchErrors \cup {"E_write"} : CatchReads(c, e)
    \/ \E c \in Calls : ReadSettles(c)
    \/ \E c \in Calls : RemoveSettles(c)

NextCache == NextCacheCalls /\ UNCHANGED sessVars

InitCacheSpec ==
    /\ InitSession({NoRecord})
    /\ InitCache({NoEntry, MalformedEntry, NoValueEntry})

SpecCache == InitCacheSpec /\ [][NextCache]_vars

\* The same calls over an entry that is not an envelope holding a list.
InitCorrupt ==
    /\ InitSession({NoRecord})
    /\ InitCache({MalformedEntry, NoValueEntry, NonListEntry})

SpecCorrupt == InitCorrupt /\ [][NextCache]_vars

\* One request that receives 401 and refreshes, from every prior session with
\* a refresh token and with every body of the refresh endpoint.
PriorSessions ==
    {AuthOmitting(1, omitted) : omitted \in SUBSET (OptionalFields \ {"refreshToken"})}
MergeBodies(n) ==
    {AuthOmitting(n, omitted) : omitted \in SUBSET OptionalFields}
        \cup {AuthEmptyRefresh(n)}
NextMergeRequest ==
    \/ BootLoad
    \/ Logout
    \/ ApiRequest(1, "get")
    \/ ResponseOk(1)
    \/ ApiRejects(1, 401)
    \/ Api401(1)
    \/ ResetSettles(1)
    \/ \E ok \in BOOLEAN : \E body \in MergeBodies(issued + 1) : RefreshResolves(body, ok)
    \/ \E e \in RefreshErrors : RefreshRejects(e)
    \/ RefreshPersistSettles
    \/ RefreshClearSettles

NextMerge == NextMergeRequest /\ UNCHANGED cacheVars

InitMerge ==
    /\ InitSession({Stringify(p) : p \in PriorSessions})
    /\ InitCache({NoEntry})

SpecMerge == InitMerge /\ [][NextMerge]_vars

\* ------------------------------------------------------------------- claims
HttpResults == {"ok", "http401", "http404", "http503", "noResponse"}

\* C1 (Spec): single-flight refresh.  While callers await the shared refresh
\* no further call reaches the refresh endpoint; the first caller's call is
\* the only one; and when the refresh settles every awaiting caller gets its
\* outcome: the same new access token, or the same underlying error.
C1_SingleFlight ==
    [][ /\ (Waiters # {} => refreshCalls' = refreshCalls)
        /\ (Waiters = {} /\ Waiters' # {} => refreshCalls' = refreshCalls + 1)
        /\ \A r \in Waiters : req'[r].pc # "awaitRefresh" =>
            /\ \A r2 \in Waiters :
                /\ req'[r2].pc = req'[r].pc
                /\ req'[r2].tok = req'[r].tok
                /\ req'[r2].result = req'[r].result
            /\ IF refreshOp.pc = "persist"
               THEN req'[r].pc = "sent" /\ req'[r].tok = refreshOp.tok
               ELSE req'[r].pc = "done" /\ req'[r].result = refreshOp.err
      ]_vars

\* Two callers were given the same new token by the only refresh call made.
C1_Witness ==
    \E r1, r2 \in Reqs :
        /\ r1 # r2
        /\ req[r1].pc = "sent" /\ req[r1].resends = 1
        /\ req[r2].pc = "sent" /\ req[r2].resends = 1
        /\ req[r1].tok = req[r2].tok
        /\ refreshCalls = 1

\* C2 as stated (SpecOne): the resend after a refresh carries the new token
\* and what the resend gets is what the caller receives.
C2_Original ==
    [][ \A r \in Reqs :
        /\ (req[r].pc = "awaitRefresh" /\ req'[r].pc = "sent" =>
                /\ req'[r].hdr = refreshOp.tok
                /\ req'[r].sends = req[r].sends + 1
                /\ req'[r].resends = 1)
        /\ (req[r].pc = "sent" /\ req[r].resends = 1 /\ req'[r] # req[r] =>
                req'[r].pc = "done")
      ]_vars

\* C2 amended (SpecOne): after a refresh that yields a token the request is
\* resent once by the 401 branch; the request interceptor runs again, so the
\* header carries the access token of the session in memory at that moment
\* and the new token when there is none; the resent request is never given to
\* the 401 branch again: it ends with the outcome of a send, after the
\* network retries a GET, HEAD or OPTIONS request still has.
C2_Resend ==
    [][ \A r \in Reqs :
        /\ (req[r].pc = "awaitRefresh" /\ req'[r].pc = "sent" =>
                /\ req'[r].hdr = IF Falsy(FieldOf(sessionRef, "accessToken"))
                                 THEN refreshOp.tok
                                 ELSE FieldOf(sessionRef, "accessToken")
                /\ req'[r].tok = refreshOp.tok
                /\ req'[r].sends = req[r].sends + 1
                /\ req'[r].resends = 1)
        /\ (req[r].pc = "sent" /\ req[r].resends = 1 /\ req'[r] # req[r] =>
                \/ req'[r].pc = "done" /\ req'[r].result \in HttpResults
                                       /\ req'[r].sends = req[r].sends
                \/ /\ req'[r].pc = "backoff"
                   /\ req[r].method \in RETRYABLE_METHODS
                   /\ req[r].nrc < MAX_NETWORK_RETRIES)
        /\ (req[r].resends = 1 => req'[r].resends = 1)
      ]_vars

\* The resent request succeeded and its caller received that success.
C2_Witness ==
    \E r \in Reqs :
        req[r].pc = "done" /\ req[r].resends = 1 /\ req[r].sends = 2
            /\ req[r].result = "ok"

\* C3 (SpecOne): a request is resent by the 401 branch at most once, causes
\* at most one refresh call, never awaits a refresh after its resend, and
\* ends with the outcome of a send once it has been resent.
C3_RetryOnce ==
    /\ refreshCalls <= 1
    /\ \A r \in Reqs :
        /\ req[r].resends <= 1
        /\ (req[r].pc \in {"awaitRefresh", "awaitReset"} => req[r].resends = 0)
        /\ (req[r].pc = "done" /\ req[r].resends = 1 => req[r].result \in HttpResults)

\* The resent request received 401 again and that 401 reached the caller.
C3_Witness ==
    \E r \in Reqs :
        /\ req[r].pc = "done" /\ req[r].resends = 1 /\ req[r].result = "http401"
        /\ refreshCalls = 1

\* C4 (SpecMerge): session merge on refresh.  When refresh() resolves with
\* body R for a call made under session P, the session set and written has
\* R's access token and, for every other field, R's value when R carries the
\* field and P's value when R omits it; the refresh operation then hands
\* R's access token to its callers.
C4_SessionMerge ==
    [][ /\ (refreshOp.pc = "net" /\ refreshOp'.pc = "persist" =>
              /\ IsSome(sessionRef')
              /\ Val(sessionRef')["accessToken"] = refreshOp'.body["accessToken"]
              /\ \A f \in OptionalFields :
                    Val(sessionRef')[f] =
                        IF refreshOp'.body[f] = Absent THEN refreshOp.cur[f]
                        ELSE refreshOp'.body[f]
              /\ (refreshOp'.ok => stored' = Stringify(Val(sessionRef'))))
        /\ (refreshOp.pc = "persist" /\ refreshOp'.pc = "idle" =>
              \A r \in Waiters :
                    req'[r].pc = "sent" /\ req'[r].tok = refreshOp.body["accessToken"])
      ]_vars

\* A response carrying only an access token turned the session with every
\* field issued first into the same session with the new access token, and
\* the caller was given that token.
C4_Witness ==
    /\ sessionRef = Some([FullAuth(1) EXCEPT !["accessToken"] = 2])
    /\ stored = Stringify([FullAuth(1) EXCEPT !["accessToken"] = 2])
    /\ \E r \in Reqs : req[r].pc = "sent" /\ req[r].resends = 1 /\ req[r].tok = 2

LoginWrites == authOp.pc = "login" /\ authOp'.pc = "persist"
RefreshWrites == refreshOp.pc = "net" /\ refreshOp'.pc = "persist"

\* C5 as stated (SpecOne): every session written by a login or by a refresh
\* has the non-empty refresh token of the response that produced it.
C5_Original ==
    [][ /\ (LoginWrites =>
              /\ ~Falsy(authOp'.body["refreshToken"])
              /\ Val(sessionRef')["refreshToken"] = authOp'.body["refreshToken"])
        /\ (RefreshWrites =>
              /\ ~Falsy(refreshOp'.body["refreshToken"])
              /\ Val(sessionRef')["refreshToken"] = refreshOp'.body["refreshToken"])
      ]_vars

\* C5 amended (SpecOne): a login response with no or an empty refresh token
\* makes the login fail with the session and the record untouched, so every
\* session a login writes has the non-empty refresh token of its response.  A
\* refresh response that omits the refresh token does not fail: the session
\* written keeps the refresh token of the session the refresh was called
\* under, which is non-empty; a refresh response that carries a refresh token,
\* even an empty one, has it written.  The record changes to a session by
\* these two writes only.
C5_RefreshTokenWritten ==
    [][ /\ (LoginWrites =>
              /\ ~Falsy(authOp'.body["refreshToken"])
              /\ Val(sessionRef')["refreshToken"] = authOp'.body["refreshToken"]
              /\ (authOp'.ok => stored' = Stringify(Val(sessionRef'))))
        /\ (authOp.pc = "login" /\ authOp'.pc = "idle" =>
              sessionRef' = sessionRef /\ stored' = stored)
        /\ (RefreshWrites =>
              /\ ~Falsy(refreshOp.cur["refreshToken"])
              /\ Val(sessionRef')["refreshToken"] =
                    IF refreshOp'.body["refreshToken"] = Absent
                    THEN refreshOp.cur["refreshToken"]
                    ELSE refreshOp'.body["refreshToken"]
              /\ (refreshOp'.ok => stored' = Stringify(Val(sessionRef'))))
        /\ (stored'.kind = "object" /\ stored' # stored =>
              LoginWrites \/ RefreshWrites)
      ]_vars

\* A refresh response without a refresh token was written with the refresh
\* token of the session the refresh was called under.
C5_Witness ==
    /\ refreshOp.pc = "persist"
    /\ refreshOp.ok
    /\ refreshOp.body["refreshToken"] = Absent
    /\ stored.kind = "object"
    /\ stored.val["refreshToken"] = refreshOp.cur["refreshToken"]
    /\ stored.val["accessToken"] = refreshOp.body["accessToken"]

\* C6 (SpecOne): a request is network-retried at most MAX_NETWORK_RETRIES
\* times on either client, and a GET, HEAD or OPTIONS request whose failure
\* with a 5xx status or no response reaches the caller was sent exactly
\* 1 + MAX_NETWORK_RETRIES times, besides the resend of the 401 branch.
C6_RetryBound ==
    \A r \in Reqs :
        /\ req[r].nrc <= MAX_NETWORK_RETRIES
        /\ req[r].sends - req[r].resends <= 1 + MAX_NETWORK_RETRIES
        /\ (req[r].pc \in {"sent", "awaitRefresh", "awaitReset"} =>
                req[r].sends = 1 + req[r].nrc + req[r].resends)
        /\ (req[r].pc = "backoff" =>
                req[r].sends = req[r].nrc + req[r].resends)
        /\ (/\ req[r].pc = "done"
            /\ req[r].method \in RETRYABLE_METHODS
            /\ req[r].result \in {"http503", "noResponse"}
            => req[r].sends - req[r].resends = 1 + MAX_NETWORK_RETRIES)

\* A GET that failed with 503 at every attempt was sent three times.
C6_Witness ==
    \E r \in Reqs :
        /\ req[r].pc = "done" /\ req[r].method = "get"
        /\ req[r].result = "http503"
        /\ req[r].sends = 3 /\ req[r].resends = 0

\* C7 as stated (SpecOne): a POST, PUT or DELETE request is sent exactly once
\* whatever the failure.
C7_Original ==
    \A r \in Reqs :
        req[r].method \notin RETRYABLE_METHODS => req[r].sends <= 1

\* C7 amended (SpecOne): a request waits for a network retry only if its
\* method is GET, HEAD or OPTIONS and the failure was no response or a 5xx
\* status; a POST, PUT or DELETE request is never network-retried: it is sent
\* once, and once more only by the 401 branch after a refresh.
C7_Eligibility ==
    \A r \in Reqs :
        /\ (req[r].pc = "backoff" =>
                /\ req[r].method \in RETRYABLE_METHODS
                /\ \/ req[r].errStatus = NoResponse
                   \/ (req[r].errStatus >= 500 /\ req[r].errStatus < 600))
        /\ (req[r].method \notin RETRYABLE_METHODS /\ req[r].pc # "idle" =>
                /\ req[r].nrc = 0
                /\ req[r].sends = 1 + req[r].resends
                /\ req[r].resends <= 1)

\* A POST failed with 503 and reached the caller after one send.
C7_Witness ==
    \E r \in Reqs :
        /\ req[r].pc = "done" /\ req[r].method = "post"
        /\ req[r].result = "http503" /\ req[r].sends = 1

\* a cachedList call settles in this step
Settles(c) == call[c].pc # "done" /\ call'[c].pc = "done"

\* C8 as stated (SpecCache): a call made after the last successful fetch of
\* its key returned V, and whose fetcher rejects, returns V.
C8_Original ==
    [][ \A c \in Calls :
          /\ Settles(c)
          /\ call[c].err \in FetchErrors
          /\ IsSome(call[c].seen)
          /\ lastOk[call[c].key] = call[c].seen
          => call'[c].result = call[c].seen /\ call'[c].thrown = ""
      ]_vars

ValidSessionRecord(raw) ==
    /\ raw.kind = "object"
    /\ \A f \in SessionFields \ {"name"} : ~Falsy(raw.val[f])

\* C10 as stated (SpecOne): loading a record that is no valid Session
\* returns absent and deletes the record.
C10_Original ==
    [][ /\ bootPc = "loading" /\ bootPc' = "ready"
        /\ stored.kind # "none"
        /\ ~ValidSessionRecord(stored)
        => sessionRef' = None /\ stored' = NoRecord
      ]_vars

\* C11 (Spec): refresh failure logs out.  When refresh() rejects, the session
\* in memory is cleared and the record erased at once; when the operation
\* then settles, the session is absent and the record erased, and every
\* caller awaiting it is rejected with the error refresh() rejected with,
\* without a resend.
C11_RefreshFailureLogsOut ==
    [][ /\ (refreshOp.pc = "net" /\ refreshOp'.pc = "clear" =>
              /\ sessionRef' = None
              /\ stored' = NoRecord
              /\ refreshOp'.err \in RefreshErrors)
        /\ (/\ refreshOp.pc = "clear"
            /\ refreshOp'.pc = "idle"
            /\ refreshOp.err \in RefreshErrors
            => /\ sessionRef' = None
               /\ stored' = NoRecord
               /\ \A r \in Waiters :
                     /\ req'[r].pc = "done"
                     /\ req'[r].result = refreshOp.err
                     /\ req'[r].sends = req[r].sends)
      ]_vars

\* Two callers awaited a refresh that failed on the network: both were
\* rejected with that failure and nothing is left of the session.
C11_Witness ==
    /\ sessionRef = None
    /\ stored = NoRecord
    /\ refreshCalls = 1
    /\ \E r1, r2 \in Reqs :
        /\ r1 # r2
        /\ req[r1].pc = "done" /\ req[r1].result = "E_refresh_network"
        /\ req[r2].pc = "done" /\ req[r2].result = "E_refresh_network"

\* a 401 handler calls refreshAccessToken() in this step
CallsRefresh(r) ==
    req[r].pc = "sent" /\ req'[r].pc \in {"awaitRefresh", "awaitReset"}

\* C12 (SpecOne): refresh precondition.  A call of refreshAccessToken() made
\* while no refresh is in flight and the session is absent or has no refresh
\* token (none, or an empty one) calls no refresh endpoint and starts no
\* shared operation, leaves no session and no record, and returns null: its
\* caller is rejected with its 401 and not resent.
C12_RefreshPrecondition ==
    [][ \A r \in Reqs :
        /\ (/\ CallsRefresh(r)
            /\ refreshOp.pc = "idle"
            /\ FieldOf(sessionRef, "refreshToken") \in {Absent, EmptyStr}
            => /\ req'[r].pc = "awaitReset"
               /\ refreshCalls' = refreshCalls
               /\ refreshOp' = refreshOp
               /\ sessionRef' = None
               /\ stored' = NoRecord)
        /\ (req[r].pc = "awaitReset" /\ req'[r] # req[r] =>
               /\ req'[r].pc = "done"
               /\ req'[r].result = "http401"
               /\ req'[r].sends = req[r].sends
               /\ refreshCalls' = refreshCalls
               /\ sessionRef' = None
               /\ stored' = NoRecord)
      ]_vars

\* A request received 401 while there was no refresh token to use: no
\* refresh call was made, nothing is left of the session and the request
\* was rejected with its 401 after its only send.
C12_Witness ==
    /\ refreshCalls = 0
    /\ issued = 1
    /\ sessionRef = None
    /\ stored = NoRecord
    /\ \E r \in Reqs :
        /\ req[r].pc = "done" /\ req[r].result = "http401"
        /\ req[r].sends = 1 /\ req[r].resends = 0

\* the 401 branch gives up on request r in this step
GivesUp(r) ==
    req[r].pc \in {"awaitRefresh", "awaitReset"} /\ req'[r].pc = "done"

\* C13 as stated (SpecOne): whenever the 401 branch gives up, because the
\* refresh yielded null or threw, the request is rejected with its own 401.
C13_Original ==
    [][ \A r \in Reqs :
          GivesUp(r) => req'[r].result = "http401" /\ req'[r].sends = req[r].sends
      ]_vars

\* C13 amended (SpecOne): when the refresh yields null the unauthorized
\* callback runs and the request is rejected with its own 401; when the
\* refresh throws the callback runs and the request is rejected with the
\* error the refresh threw (the failure of the refresh call or of the storage
\* write), not with the 401.  In both cases nothing is left of the session
\* and the request is not resent.
C13_FailurePath ==
    [][ \A r \in Reqs :
          GivesUp(r) =>
            /\ req'[r].sends = req[r].sends
            /\ req'[r].resends = 0
            /\ sessionRef' = None
            /\ stored' = NoRecord
            /\ IF req[r].pc = "awaitReset"
               THEN req'[r].result = "http401"
               ELSE /\ refreshOp.pc = "clear"
                    /\ req'[r].result = refreshOp.err
                    /\ req'[r].result \in RefreshErrors \cup {"E_persist"}
      ]_vars

\* The refresh endpoint rejected the refresh: the request that had received
\* 401 was rejected with the refresh error after its only send.
C13_Witness ==
    /\ sessionRef = None
    /\ stored = NoRecord
    /\ refreshCalls = 1
    /\ \E r \in Reqs :
        /\ req[r].pc = "done" /\ req[r].result = "E_refresh_rejected"
        /\ req[r].sends = 1 /\ req[r].resends = 0

\* the api client sends a new request in this step
Sends(r) == req[r].pc = "idle" /\ req'[r].pc = "sent" /\ req'[r].client = "api"

\* C14 (Spec): applySession ordering.  On the step that calls applySession(S),
\* for a login or for a refresh, the durable write is left pending and
\* getAccessToken() / getTenantId() already return S's access token and
\* tenant id; a request sent while the write is pending and S is still the
\* session in memory carries S's access token.
C14_ApplySessionOrdering ==
    [][ /\ (LoginWrites =>
              /\ authOp'.pc = "persist"
              /\ FieldOf(sessionRef', "accessToken") = authOp'.body["accessToken"]
              /\ FieldOf(sessionRef', "tenantId") = authOp'.body["tenantId"])
        /\ (RefreshWrites =>
              /\ refreshOp'.pc = "persist"
              /\ FieldOf(sessionRef', "accessToken") = refreshOp'.body["accessToken"]
              /\ FieldOf(sessionRef', "tenantId") =
                    IF refreshOp'.body["tenantId"] = Absent
                    THEN refreshOp.cur["tenantId"]
                    ELSE refreshOp'.body["tenantId"])
        /\ \A r \in Reqs :
              /\ (/\ Sends(r)
                  /\ authOp.pc = "persist"
                  /\ IsSome(sessionRef)
                  /\ \A f \in SessionFields : Val(sessionRef)[f] = authOp.body[f]
                  => req'[r].hdr = authOp.body["accessToken"])
              /\ (/\ Sends(r)
                  /\ refreshOp.pc = "persist"
                  /\ FieldOf(sessionRef, "accessToken") = refreshOp.tok
                  => req'[r].hdr = refreshOp.tok)
      ]_vars

\* A request was sent while the durable write of a refreshed session was
\* still pending, and a write that is going to fail: it carries the
\* refreshed access token.
C14_Witness ==
    /\ refreshOp.pc = "persist"
    /\ ~refreshOp.ok
    /\ \E r \in Reqs :
        /\ req[r].pc = "sent" /\ req[r].sends = 1
        /\ req[r].hdr = refreshOp.tok
        /\ req[r].hdr = refreshOp.body["accessToken"]

\* resetSession() is called in this step: by logout, by refreshAccessToken
\* (no refresh token; .catch) or by the unauthorized callback of a 401 handler
ResetStep ==
    \/ \E r \in Reqs : req[r].pc = "sent" /\ req'[r].pc = "awaitReset"
    \/ \E r \in Reqs : GivesUp(r)
    \/ refreshOp.pc \in {"net", "persist"} /\ refreshOp'.pc = "clear"
    \/ IsSome(sessionRef) /\ sessionRef' # sessionRef /\ req' = req
            /\ refreshOp' = refreshOp /\ authOp' = authOp

\* C15 (SpecOne): resetSession is idempotent.  Every call of resetSession
\* leaves the session absent and the record erased, whatever they were
\* before, also when a reset has just been made or nothing was there; the
\* operation that called it goes on as after a first reset.
C15_ResetIdempotent ==
    [][ /\ (ResetStep => sessionRef' = None /\ stored' = NoRecord)
        /\ (ResetStep /\ sessionRef = None /\ stored = NoRecord =>
              /\ UNCHANGED <<sessionRef, stored>>
              /\ \A r \in Reqs : req'[r] # req[r] =>
                    req'[r].pc \in {"awaitReset", "done"})
      ]_vars

\* The write of a refreshed session failed: resetSession ran in the catch of
\* the refresh and again in the unauthorized callback of the request, which
\* was rejected with the write's error; nothing is left of the session.
C15_Witness ==
    /\ sessionRef = None
    /\ stored = NoRecord
    /\ refreshOp.pc = "idle"
    /\ \E r \in Reqs : req[r].pc = "done" /\ req[r].result = "E_persist"

\* C16 as stated (SpecOne): the session in memory is absent or has its access
\* token, refresh token, tenant id, email, role and token type populated.
C16_Original ==
    \/ sessionRef = None
    \/ \A f \in {"accessToken", "refreshToken", "tenantId", "email", "role", "tokenType"} :
          ~Falsy(Val(sessionRef)[f])

\* request r goes on the wire in this step: a first send, a network retry
\* or the resend of the 401 branch
OnWire(r) == req'[r].pc = "sent" /\ req'[r].sends = req[r].sends + 1

\* the value of a session field when it is available, or else `other`
Available(f, other) ==
    IF FieldOf(sessionRef, f) \in {Absent, EmptyStr} THEN other
    ELSE FieldOf(sessionRef, f)

\* C17 as stated (SpecOne): every request the api client sends carries the
\* access token and the tenant id the session has at send time and no such
\* header when the session has none; the public client's carry neither.
C17_Original ==
    [][ \A r \in Reqs :
          OnWire(r) =>
            IF req'[r].client = "api"
            THEN /\ req'[r].hdr = Available("accessToken", Absent)
                 /\ req'[r].tenant = Available("tenantId", Absent)
            ELSE req'[r].hdr = Absent /\ req'[r].tenant = Absent
      ]_vars

\* C18 (SpecFair): pending-handle release.  When the refresh call and the
\* storage calls return, every started refresh operation completes and every
\* handler awaiting it continues; with the operation completed the handle is
\* empty, and a call of refreshAccessToken() made then under a session with
\* a refresh token calls the refresh endpoint again and starts a new
\* operation.
C18_HandleReleased ==
    /\ (refreshOp.pc # "idle") ~> (refreshOp.pc = "idle")
    /\ \A r \in Reqs : (req[r].pc = "awaitRefresh") ~> (req[r].pc \in {"sent", "done"})
    /\ [][ \A r \in Reqs :
             /\ CallsRefresh(r)
             /\ refreshOp.pc = "idle"
             /\ FieldOf(sessionRef, "refreshToken") \notin {Absent, EmptyStr}
             => /\ refreshCalls' = refreshCalls + 1
                /\ refreshOp'.pc = "net"
                /\ req'[r].pc = "awaitRefresh"
         ]_vars

\* A refresh operation completed, and a later 401 started a second one with
\* a second call of the refresh endpoint.
C18_Witness ==
    /\ refreshCalls = 2
    /\ refreshOp.pc = "net"
    /\ \E r1, r2 \in Reqs :
        /\ req[r1].pc \in {"sent", "done"} /\ req[r1].retry
        /\ req[r2].pc = "awaitRefresh"

\* C19 as stated (Spec): session state machine.  Once the app has booted, a
\* session appears in memory, and a record in the durable store, only by a
\* login that succeeded: after a logout or a forced reset both stay absent
\* until then, also when a refresh that was in flight completes.
C19_Original ==
    [][ /\ bootPc = "ready"
        /\ \/ sessionRef = None /\ sessionRef' # None
           \/ stored = NoRecord /\ stored' # NoRecord
        => LoginWrites
      ]_vars

\* the shared refresh operation completes with success in this step
RefreshSucceeds == refreshOp.pc = "persist" /\ refreshOp.ok /\ refreshOp'.pc = "idle"

\* C20 as stated (Spec): concurrent 401s share one refresh.  The requests
\* that received 401 and await the refresh operation have one call of the
\* refresh endpoint between them, and when it succeeds each of them is resent
\* once, with the new access token in its Authorization header.
C20_Original ==
    [][ /\ (Waiters = {} /\ Waiters' # {} => refreshCalls' = refreshCalls + 1)
        /\ (Waiters # {} => refreshCalls' = refreshCalls)
        /\ (RefreshSucceeds =>
              \A r \in Waiters :
                 /\ req'[r].pc = "sent"
                 /\ req'[r].sends = req[r].sends + 1
                 /\ req'[r].resends = 1
                 /\ req'[r].hdr = refreshOp.tok)
        /\ \A r \in Reqs : req'[r].resends <= 1
      ]_vars

\* C20 amended (Spec): the requests that received 401 and await the refresh
\* operation have one call of the refresh endpoint between them, and when it
\* succeeds each of them is resent once, all with the same Authorization
\* header: the access token of the session in memory at that moment, which
\* is the new token unless the session was replaced meanwhile, and the new
\* token when there is no session.
C20_SharedRefresh ==
    [][ /\ (Waiters = {} /\ Waiters' # {} => refreshCalls' = refreshCalls + 1)
        /\ (Waiters # {} => refreshCalls' = refreshCalls)
        /\ (RefreshSucceeds =>
              \A r \in Waiters :
                 /\ req'[r].pc = "sent"
                 /\ req'[r].sends = req[r].sends + 1
                 /\ req'[r].resends = 1
                 /\ req'[r].hdr = Available("accessToken", refreshOp.tok)
                 /\ (sessionRef' = Some(Merged(refreshOp.body, refreshOp.cur))
                       => req'[r].hdr = refreshOp.tok))
        /\ \A r \in Reqs : req'[r].resends <= 1
      ]_vars

\* Two requests awaited the only refresh call made; it succeeded and both
\* were resent, a second time on the wire, with the token it issued.
C20_Witness ==
    /\ refreshCalls = 1
    /\ issued = 2
    /\ \A r \in Reqs :
        /\ req[r].pc = "sent"
        /\ req[r].sends = 2 /\ req[r].resends = 1
        /\ req[r].hdr = 2 /\ req[r].tok = 2

\* a 401 that will not be recovered: refreshAccessToken() is returning null
\* for want of a refresh token, or the operation a handler awaits has failed
\* (the refresh call, or the write of the merged session) or is about to
\* yield no token
Unrecoverable ==
    \E r \in Reqs :
        \/ req[r].pc = "awaitReset"
        \/ /\ req[r].pc = "awaitRefresh"
           /\ \/ refreshOp.pc = "clear"
              \/ refreshOp.pc = "persist" /\ (~refreshOp.ok \/ Falsy(refreshOp.tok))

\* C21 (SpecFair): forced logout.  When a 401 cannot be recovered because
\* the refresh yields no token or fails, the session becomes absent in memory
\* and in the durable store without any user action, and it is absent in
\* both when the handler rejects the request.
C21_ForcedLogout ==
    /\ Unrecoverable ~> (sessionRef = None /\ stored = NoRecord)
    /\ [][ \A r \in Reqs : GivesUp(r) => sessionRef' = None /\ stored' = NoRecord ]_vars

\* The refresh endpoint answered without an access token: the session merged
\* from that answer was in memory and in the store, the handler got no token,
\* rejected the request with its 401, and nothing is left of the session.
C21_Witness ==
    /\ refreshCalls = 1
    /\ issued = 2
    /\ refreshOp.pc = "idle"
    /\ sessionRef = None
    /\ stored = NoRecord
    /\ \E r \in Reqs :
        /\ req[r].pc = "done" /\ req[r].result = "http401"
        /\ req[r].sends = 1 /\ req[r].resends = 0

\* the fetcher of call c has resolved (with call[c].fresh)
FetcherSucceeded(c) == call[c].pc = "write" \/ call[c].err = "E_write"

\* C22 as stated (SpecCache): a call whose fetcher resolved with V returns V,
\* not an older cached value and not an error, and when it returns the entry
\* under its key holds V.
C22_Original ==
    [][ \A c \in Calls :
          Settles(c) /\ FetcherSucceeded(c) =>
             /\ call'[c].result = Some(call[c].fresh)
             /\ call'[c].thrown = ""
             /\ cache'[call[c].key] = Envelope(call[c].fresh)
      ]_vars

\* request r is sent again by the network-retry branch in this step
NetworkResend(r) == req[r].pc = "backoff" /\ req'[r].pc = "sent"

\* a 401 response to request r of the authenticated client is rejected to
\* the caller without the 401 branch in this step
Rejects401(r) ==
    /\ req[r].pc = "sent" /\ req[r].client = "api"
    /\ req'[r].pc = "done" /\ req'[r].result = "http401"

\* C23 as stated (SpecOne): composition of the two retry protocols.  A
\* request that was network-retried and then receives 401 goes through the
\* 401 branch, once; a network retry carries the Authorization header of the
\* send it repeats.
C23_Original ==
    [][ \A r \in Reqs :
          /\ (Rejects401(r) => req[r].retry)
          /\ (req[r].retry => req'[r].pc \notin {"awaitRefresh", "awaitReset"}
                                \/ req'[r].pc = req[r].pc)
          /\ req'[r].resends <= 1
          /\ (NetworkResend(r) => req'[r].hdr = req[r].hdr)
      ]_vars

\* C23 amended (SpecOne): a request that was network-retried and then
\* receives 401 goes through the 401 branch, once; a network retry carries
\* the access token of the session in memory when it is sent, and the
\* Authorization header of the send it repeats when there is none.
C23_Composition ==
    [][ \A r \in Reqs :
          /\ (Rejects401(r) => req[r].retry)
          /\ (req[r].retry => req'[r].pc \notin {"awaitRefresh", "awaitReset"}
                                \/ req'[r].pc = req[r].pc)
          /\ req'[r].resends <= 1
          /\ (NetworkResend(r) =>
                req'[r].hdr = IF req[r].client = "api"
                              THEN Available("accessToken", req[r].hdr)
                              ELSE req[r].hdr)
      ]_vars

\* A GET was sent, network-retried twice, received 401 on its third send,
\* was resent after the refresh and succeeded.
C23_Witness ==
    \E r \in Reqs :
        /\ req[r].pc = "done" /\ req[r].result = "ok"
        /\ req[r].method = "get" /\ req[r].client = "api"
        /\ req[r].sends = 4 /\ req[r].resends = 1
        /\ refreshCalls = 1

\* the error of a send of request r on the authenticated client is rejected
\* to the caller in this step
PassesThrough(r) ==
    /\ req[r].pc = "sent" /\ req[r].client = "api"
    /\ req'[r].pc = "done" /\ req'[r].result # "ok"

\* C24 (SpecOne): ineligible errors pass through.  An error of the
\* authenticated client is rejected to the caller as it came only when it is
\* a 401 of a request already auth-retried, or not a 401 and not eligible for
\* a network retry; handling it starts and joins no refresh, calls no refresh
\* endpoint, and leaves the session in memory and the record as they were.
C24_PassThrough ==
    [][ \A r \in Reqs :
          PassesThrough(r) =>
            /\ req'[r].result \in HttpResults
            /\ (req'[r].result = "http401" => req[r].retry)
            /\ (req'[r].result \in {"http503", "noResponse"} =>
                   \/ req[r].method \notin RETRYABLE_METHODS
                   \/ req[r].nrc = MAX_NETWORK_RETRIES)
            /\ req'[r].sends = req[r].sends
            /\ sessionRef' = sessionRef
            /\ stored' = stored
            /\ refreshOp' = refreshOp
            /\ refreshCalls' = refreshCalls
      ]_vars

\* A request resent after a refresh received 401 again: that 401 reached the
\* caller, and the refreshed session is still in memory and in the store.
C24_Witness ==
    /\ refreshCalls = 1
    /\ refreshOp.pc = "idle"
    /\ IsSome(sessionRef)
    /\ stored = Stringify(Val(sessionRef))
    /\ \E r \in Reqs :
        /\ req[r].pc = "done" /\ req[r].result = "http401"
        /\ req[r].resends = 1 /\ req[r].tok = Absent

\* C25 (Spec): persistence failure during refresh.  When the refresh call
\* succeeded and the write of the merged session fails, the session in memory
\* is cleared and the record erased at once; when the operation then settles
\* the session is absent and the record erased, and every caller awaiting it
\* is rejected, with the error of the write, and not resent.
C25_PersistFailure ==
    [][ /\ (refreshOp.pc = "persist" /\ ~refreshOp.ok /\ refreshOp' # refreshOp =>
              /\ refreshOp'.pc = "clear"
              /\ refreshOp'.err = "E_persist"
              /\ sessionRef' = None
              /\ stored' = NoRecord
              /\ req' = req)
        /\ (/\ refreshOp.pc = "clear"
            /\ refreshOp.err = "E_persist"
            /\ refreshOp' # refreshOp
            => /\ refreshOp'.pc = "idle"
               /\ sessionRef' = None
               /\ stored' = NoRecord
               /\ \A r \in Waiters :
                     /\ req'[r].pc = "done"
                     /\ req'[r].result = "E_persist"
                     /\ req'[r].sends = req[r].sends)
      ]_vars

\* Two callers awaited a refresh whose call succeeded and whose write
\* failed: both were rejected and nothing is left of the session.
C25_Witness ==
    /\ sessionRef = None
    /\ stored = NoRecord
    /\ refreshCalls = 1
    /\ issued = 2
    /\ \A r \in Reqs :
        /\ req[r].pc = "done" /\ req[r].result = "E_persist"
        /\ req[r].sends = 1

\* C26 as stated (SpecCorrupt): a corrupt cache entry is a miss.  A fallback
\* read that finds an entry which is not an envelope holding a list removes
\* it and yields no value: the call rejects with the error of its fetcher.
C26_Original ==
    [][ \A c \in Calls :
          /\ (/\ call[c].pc = "read"
              /\ call'[c] # call[c]
              /\ call[c].raw.kind \notin {"none", "envelope"}
              => /\ call'[c].pc = "remove"
                 /\ cache'[call[c].key].kind \in {"none", "envelope"})
          /\ (call[c].pc = "remove" /\ call'[c] # call[c] =>
                 /\ call'[c].pc = "done"
                 /\ call'[c].result = None
                 /\ call'[c].thrown = call[c].err)
      ]_vars

\* sends a request can have: the original, the network retries, the resend
\* of the 401 branch
MaxSends == 1 + MAX_NETWORK_RETRIES + 1

\* C27 (SpecOneFair): bounded sends.  A request is sent at most
\* 1 + MAX_NETWORK_RETRIES + 1 times, its network retries counted over its
\* whole life, the sends after the resend of the 401 branch included; and
\* when every send, every wait, the refresh call and the storage calls
\* return, the request settles.
C27_BoundedSends ==
    /\ [](\A r \in Reqs :
            /\ req[r].sends <= MaxSends
            /\ req[r].nrc <= MAX_NETWORK_RETRIES
            /\ req[r].resends <= 1
            /\ (req[r].pc # "done" => req[r].sends <= 1 + req[r].nrc + req[r].resends))
    /\ \A r \in Reqs : (req[r].pc \notin {"idle", "done"}) ~> (req[r].pc = "done")

\* A GET settled after four sends: a network retry, a 401 and its resend,
\* then a second network retry that failed like the sends before it.
C27_Witness ==
    \E r \in Reqs :
        /\ req[r].pc = "done" /\ req[r].result = "noResponse"
        /\ req[r].sends = MaxSends /\ req[r].resends = 1

\* the session in memory is not the one the refresh in flight was started
\* under: a login has replaced it since
ReplacedByLogin ==
    /\ refreshOp.pc = "net"
    /\ IsSome(sessionRef)
    /\ sessionRef # Some(refreshOp.cur)

\* C28 as stated (Spec): a refresh does not clobber a newer login.  When the
\* session was replaced by a login while the refresh call was in flight, the
\* return of that call, with success or with failure, leaves the session in
\* memory and the record as the login made them.
C28_Original ==
    [][ ReplacedByLogin /\ refreshOp' # refreshOp =>
            sessionRef' = sessionRef /\ stored' = stored
      ]_vars

\* C29 as stated (SpecTenant): no cross-tenant cache fallback.  A list
\* function called under tenant T whose fetch fails returns, if it returns a
\* list, a list that was fetched under T.
C29_Original ==
    [][ \A c \in Calls :
          /\ Settles(c)
          /\ call[c].err \in FetchErrors
          /\ IsSome(call'[c].result)
          => \A i \in 1..Len(Val(call'[c].result)) :
                 Val(call'[c].result)[i] = call[c].tenant
      ]_vars

\* no boot, login, refresh or reset is in progress
AtRest ==
    /\ bootPc = "ready"
    /\ authOp.pc = "idle"
    /\ refreshOp.pc = "idle"
    /\ \A r \in Reqs : req[r].pc # "awaitReset"

\* C30 as stated (Spec): memory and durable store agree at rest.  When no
\* operation is in progress, the record exists exactly when a session is in
\* memory, and then holds that session.
C30_Original ==
    AtRest =>
        IF IsSome(sessionRef) THEN stored = Stringify(Val(sessionRef))
        ELSE stored = NoRecord

====
